---- MODULE Spec2Model ----
(***************************************************************************)
(* Model of the holdings pipeline of fund_tracker_v2.py:                   *)
(*   scrape_filings -> preprocess_filings_df -> filter_date_range          *)
(*                  -> filter_top_k_holdings -> make_graph                 *)
(* A DataFrame is a record [status, cols, rows]: the set of its column     *)
(* names and the sequence of its rows, each row a record over the columns. *)
(* Column names are spelled as identifiers:                                *)
(*   Date_Filed = 'Date Filed', Value_000 = 'Value ($000)',                *)
(*   Option_Type = 'Option Type'.                                          *)
(* A string is a sequence of tokens (a symbol, then the suffixes appended  *)
(* to it), a date is a day number counted from 1970-01-01.                 *)
(***************************************************************************)
EXTENDS Integers, Sequences, FiniteSets, TLC

VARIABLES pc, scraped, df, df_window, df_topk, date_range, start_date,
          end_date, k

vars == <<pc, scraped, df, df_window, df_topk, date_range, start_date,
          end_date, k>>

----------------------------------------------------------------------------
(* Bounds of the model *)

MaxRows == 3

MaxK == 2

MaxNegK == 1

----------------------------------------------------------------------------
(* Values *)

(* A missing number (NaN in a numeric column) and a missing string (NaN in *)
(* a column of strings); no number of the model is negative.               *)
NaN == 0 - 1

NaNStr == <<"NaN">>

Symbols == {"A", "B"}

OptionTypes == {"none", "put", "call"}

(* The 'Quarter' labels of the filings: 1Y, 3Y, 5Y and Max cut them apart *)
QuarterLabels == {<<"Q1", 2016>>, <<"Q1", 2018>>, <<"Q1", 2021>>}

PutSuffix == " (put)"

CallSuffix == " (call)"

(* What a call that raised KeyError leaves in place of a frame *)
KeyError == [status |-> "KeyError", cols |-> {}, rows |-> <<>>]

(* A variable of the script that is not assigned yet *)
NoFrame == [status |-> "none", cols |-> {}, rows |-> <<>>]

RawCols == {"Quarter", "Date_Filed", "Ticker", "CUSIP", "Value_000",
            "Percentage", "Shares", "Option_Type"}

----------------------------------------------------------------------------
(* Dates: datetime(y, m, d) as a day number, timedelta(days) as a number *)

IsLeap(y) == (y % 4 = 0 /\ y % 100 # 0) \/ y % 400 = 0

LeapsBefore(y) == ((y - 1) \div 4) - ((y - 1) \div 100) + ((y - 1) \div 400)

DaysBeforeYear(y) == 365 * (y - 1970) + LeapsBefore(y) - LeapsBefore(1970)

MonthLength(y, m) ==
    IF m = 2 THEN (IF IsLeap(y) THEN 29 ELSE 28)
    ELSE IF m \in {4, 6, 9, 11} THEN 30 ELSE 31

RECURSIVE DaysBeforeMonth(_, _)
DaysBeforeMonth(y, m) ==
    IF m = 1 THEN 0 ELSE DaysBeforeMonth(y, m - 1) + MonthLength(y, m - 1)

datetime(y, m, d) == DaysBeforeYear(y) + DaysBeforeMonth(y, m) + d - 1

timedelta(days) == days

(* pd.to_datetime of a 'Date Filed' cell: a date string becomes a          *)
(* timestamp, a timestamp stays what it is.                                *)
to_datetime(v) ==
    IF v[1] = "str" THEN <<"ts", datetime(v[2], v[3], v[4])>> ELSE v

get_quarter_end(quarter_str) ==
    LET year == quarter_str[2]
        quarter == quarter_str[1]
    IN CASE quarter = "Q1" -> datetime(year, 3, 31)
         [] quarter = "Q2" -> datetime(year, 6, 30)
         [] quarter = "Q3" -> datetime(year, 9, 30)
         [] quarter = "Q4" -> datetime(year, 12, 31)

----------------------------------------------------------------------------
(* Strings: comparison and the option suffix *)

TokRank(t) ==
    CASE t = "A" -> 1
      [] t = "B" -> 2
      [] t = CallSuffix -> 1
      [] t = PutSuffix -> 2

(* s < t for Python strings: the first differing position decides, a       *)
(* proper prefix is smaller.                                               *)
StrLT(s, t) ==
    \E i \in 1..(Len(s) + 1) :
        /\ i <= Len(t)
        /\ \A j \in 1..(i - 1) : s[j] = t[j]
        /\ (i = Len(s) + 1 \/ TokRank(s[i]) < TokRank(t[i]))

(* df['ticker_adjusted'] = df['Ticker'], then += ' (put)' / ' (call)' on   *)
(* the rows whose 'Option Type' is put / call.                             *)
AdjustTicker(row) ==
    IF row.Option_Type = "put" THEN Append(row.Ticker, PutSuffix)
    ELSE IF row.Option_Type = "call" THEN Append(row.Ticker, CallSuffix)
    ELSE row.Ticker

----------------------------------------------------------------------------
(* Sequences *)

Range(s) == {s[i] : i \in 1..Len(s)}

Min(S) == CHOOSE x \in S : \A y \in S : x <= y

Max(S) == CHOOSE x \in S : \A y \in S : x >= y

Perms(n) == {p \in [1..n -> 1..n] : \A i, j \in 1..n : p[i] = p[j] => i = j}

Permute(s, p) == [i \in 1..Len(s) |-> s[p[i]]]

(* The values of s in order of first appearance: Series.unique() *)
RECURSIVE Unique(_)
Unique(s) ==
    IF s = <<>> THEN <<>>
    ELSE LET rest == Unique(SubSeq(s, 1, Len(s) - 1))
             x == s[Len(s)]
         IN IF x \in Range(rest) THEN rest ELSE Append(rest, x)

(* The numbers of S in ascending order: sorted(...) *)
RECURSIVE SortedSeq(_)
SortedSeq(S) ==
    IF S = {} THEN <<>> ELSE <<Min(S)>> \o SortedSeq(S \ {Min(S)})

(* Python's s[:n]: Series.head(n) is iloc[:n] *)
Head_n(s, n) ==
    IF n >= 0 THEN SubSeq(s, 1, IF n < Len(s) THEN n ELSE Len(s))
    ELSE SubSeq(s, 1, IF Len(s) + n > 0 THEN Len(s) + n ELSE 0)

----------------------------------------------------------------------------
(* DataFrame operations *)

Frame(cols, rows) == [status |-> "ok", cols |-> cols, rows |-> rows]

(* pd.DataFrame(list of dicts): the columns are the keys of all the dicts, *)
(* a key a dict lacks is NaN in its row; no dict, no column. The one key   *)
(* a dict of updated_rows can lack is ticker_adjusted, a string.           *)
DataFrame(dicts) ==
    LET cols == UNION {DOMAIN dicts[i] : i \in 1..Len(dicts)}
    IN Frame(cols, [i \in 1..Len(dicts) |->
                      [c \in cols |-> IF c \in DOMAIN dicts[i]
                                      THEN dicts[i][c] ELSE NaNStr]])

(* df.sort_values(by=<one column>): the default kind is quicksort, which   *)
(* is not stable, so rows with equal keys may come out in any order.       *)
SortValuesOutcomes(rows, col, ascending) ==
    {Permute(rows, p) : p \in
        {q \in Perms(Len(rows)) :
            \A i \in 1..(Len(rows) - 1) :
                IF ascending THEN rows[q[i]][col] <= rows[q[i + 1]][col]
                ELSE rows[q[i]][col] >= rows[q[i + 1]][col]}}

(* The order of sort_values(by=['Ticker', 'quarter_end']) *)
TickerQuarterLess(a, b) ==
    \/ StrLT(a.Ticker, b.Ticker)
    \/ (a.Ticker = b.Ticker /\ a.quarter_end < b.quarter_end)

(* SortByTickerQuarter left out: updated_rows in the order it was built *)
SortByTickerQuarterSkipped(rows) == rows

(* df.sort_values(by=['Ticker', 'quarter_end']): several keys are sorted   *)
(* by a stable lexsort, so rows with equal keys keep their order.          *)
RECURSIVE SortByTickerQuarter(_)
SortByTickerQuarter(rows) ==
    IF rows = <<>> THEN <<>>
    ELSE LET done == SortByTickerQuarter(SubSeq(rows, 1, Len(rows) - 1))
             x == rows[Len(rows)]
             n == Cardinality({i \in 1..Len(done) :
                                  ~TickerQuarterLess(x, done[i])})
         IN SubSeq(done, 1, n) \o <<x>> \o SubSeq(done, n + 1, Len(done))

----------------------------------------------------------------------------
(* preprocess_filings_df *)

(* Lines 86 and 89 assign to columns of the frame the caller passed: this *)
(* is the caller's frame when the function has run (or has raised).        *)
PreprocessInPlace(frame) ==
    IF "Date_Filed" \notin frame.cols THEN frame
    ELSE LET dated == [i \in 1..Len(frame.rows) |->
                 [frame.rows[i] EXCEPT !.Date_Filed = to_datetime(@)]]
         IN IF "Value_000" \notin frame.cols
            THEN [frame EXCEPT !.rows = dated]
            ELSE [frame EXCEPT !.rows =
                    [i \in 1..Len(dated) |->
                       [dated[i] EXCEPT !.Value_000 = 1000 * @]]]

(* df.rename({'Value ($000)': 'Value'}, axis=1) of one row *)
RenameValue(row) ==
    [c \in (DOMAIN row \ {"Value_000"}) \cup {"Value"} |->
        IF c = "Value" THEN row.Value_000 ELSE row[c]]

(* Lines 90-106: rename, dropna(subset=['Percentage']), quarter_end *)
WithQuarterEnd(frame) ==
    LET renamed == [i \in 1..Len(frame.rows) |-> RenameValue(frame.rows[i])]
        kept == SelectSeq(renamed, LAMBDA r : r.Percentage # NaN)
    IN [i \in 1..Len(kept) |->
          [quarter_end |-> get_quarter_end(kept[i].Quarter)] @@ kept[i]]

(* Lines 114-116 *)
WithTickerAdjusted(rows) ==
    [i \in 1..Len(rows) |->
        [ticker_adjusted |-> AdjustTicker(rows[i])] @@ rows[i]]

(* SkipQuarter without its upper bound: quarters after the last sighting   *)
(* of the ticker are filled too.                                           *)
SkipQuarterNoUpper(quarter, min_date, max_date) ==
    quarter < min_date

(* Line 134: the quarter is outside the holding period of the ticker *)
SkipQuarter(quarter, min_date, max_date) ==
    quarter < min_date \/ quarter > max_date

(* Lines 138-149: the row added for a quarter the ticker has no row at *)
ZeroRow(d, ticker_df, ticker, quarter) ==
    LET at_quarter == SelectSeq(d, LAMBDA r : r.quarter_end = quarter)
    IN [Quarter |-> at_quarter[1].Quarter,
        Date_Filed |-> at_quarter[1].Date_Filed,
        Ticker |-> ticker,
        CUSIP |-> ticker_df[1].CUSIP,
        Value |-> 0,
        Percentage |-> 0,
        Shares |-> 0,
        Option_Type |-> ticker_df[1].Option_Type,
        quarter_end |-> quarter]

(* Lines 133-152: the rows of one ticker, over the quarters in order *)
RECURSIVE TickerRows(_, _, _)
TickerRows(d, ticker, quarters) ==
    IF quarters = <<>> THEN <<>>
    ELSE LET ticker_df == SelectSeq(d, LAMBDA r : r.ticker_adjusted = ticker)
             quarter == Head(quarters)
             dates == {ticker_df[i].quarter_end : i \in 1..Len(ticker_df)}
             here == SelectSeq(ticker_df, LAMBDA r : r.quarter_end = quarter)
             rest == TickerRows(d, ticker, Tail(quarters))
         IN IF SkipQuarter(quarter, Min(dates), Max(dates)) THEN rest
            ELSE IF quarter \notin dates
                 THEN <<ZeroRow(d, ticker_df, ticker, quarter)>> \o rest
                 ELSE <<here[1]>> \o rest

(* Lines 123-152: updated_rows, ticker by ticker *)
RECURSIVE UpdatedRows(_, _, _)
UpdatedRows(d, tickers, all_quarters) ==
    IF tickers = <<>> THEN <<>>
    ELSE TickerRows(d, Head(tickers), all_quarters)
         \o UpdatedRows(d, Tail(tickers), all_quarters)

(* Lines 114-159, from the frame sorted by quarter_end *)
GapFill(sorted) ==
    LET d == WithTickerAdjusted(sorted)
        all_quarters == SortedSeq({d[i].quarter_end : i \in 1..Len(d)})
        tickers == Unique([i \in 1..Len(d) |-> d[i].ticker_adjusted])
        updated_df == DataFrame(UpdatedRows(d, tickers, all_quarters))
    IN IF "Ticker" \notin updated_df.cols THEN KeyError
       ELSE [updated_df EXCEPT !.rows = SortByTickerQuarter(@)]

(* What preprocess_filings_df(frame) may return: one frame for each order  *)
(* the sort of line 110 may leave rows of one quarter in, or the KeyError  *)
(* of a column that is not there.                                          *)
PreprocessOutcomes(frame) ==
    IF ~({"Date_Filed", "Value_000", "Percentage", "Quarter", "Ticker",
          "Option_Type"} \subseteq frame.cols)
    THEN {KeyError}
    ELSE {GapFill(s) : s \in SortValuesOutcomes(
              WithQuarterEnd(PreprocessInPlace(frame)), "quarter_end", TRUE)}

----------------------------------------------------------------------------
(* filter_date_range *)

DateRanges == {"1Y", "3Y", "5Y", "Max", "Custom"}

QuarterEnds(frame) ==
    {frame.rows[i].quarter_end : i \in 1..Len(frame.rows)}

(* InWindow with the two bounds joined by "or" *)
InWindowEither(quarter_end, start, end) ==
    quarter_end >= start \/ quarter_end <= end

(* Line 177: the rows inside [start, end] *)
InWindow(quarter_end, start, end) ==
    quarter_end >= start /\ quarter_end <= end

(* Lines 163-174: the window of a selection; the two dates of a Custom     *)
(* selection are the ones the two date inputs return.                      *)
WindowOf(frame, range, start_input, end_input) ==
    LET lo == Min(QuarterEnds(frame))
        hi == Max(QuarterEnds(frame))
        back(days) == IF lo >= hi - timedelta(days) THEN lo
                      ELSE hi - timedelta(days)
    IN CASE range = "1Y" -> <<back(365), hi>>
         [] range = "3Y" -> <<back(3 * 365), hi>>
         [] range = "5Y" -> <<back(5 * 365), hi>>
         [] range = "Max" -> <<lo, hi>>
         [] OTHER -> <<start_input, end_input>>

filter_date_range(frame, window) ==
    [frame EXCEPT !.rows =
        SelectSeq(@, LAMBDA r : InWindow(r.quarter_end, window[1], window[2]))]

----------------------------------------------------------------------------
(* filter_top_k_holdings *)

KValues == (0 - MaxNegK)..MaxK

Tickers(rows) == [i \in 1..Len(rows) |-> rows[i].Ticker]

(* Line 190: the tickers of the first k rows of the ranking, each once *)
TopHoldings(df_end_date_sorted, n) ==
    Range(Unique(Head_n(Tickers(df_end_date_sorted), n)))

(* What filter_top_k_holdings(frame, n) may return: one frame for each     *)
(* order the two single-column sorts may leave equal keys in.              *)
TopKOutcomes(frame, n) ==
    IF frame.rows = <<>> THEN {frame}
    ELSE LET last_date == Max(QuarterEnds(frame))
         IN {[frame EXCEPT !.rows =
                 SelectSeq(sorted, LAMBDA r : r.Ticker \in TopHoldings(ranked, n))] :
               <<sorted, ranked>> \in
                 {<<s, t>> : s \in SortValuesOutcomes(frame.rows, "quarter_end", TRUE),
                             t \in SortValuesOutcomes(
                                 SelectSeq(frame.rows,
                                           LAMBDA r : r.quarter_end = last_date),
                                 "Percentage", FALSE)}}

----------------------------------------------------------------------------
(* make_graph *)

(* Lines 205-207 assign the column ticker_adjusted of the frame passed in: *)
(* this is that frame when make_graph has run. The figure is not modelled. *)
MakeGraphInPlace(frame) ==
    Frame(frame.cols \cup {"ticker_adjusted"},
          [i \in 1..Len(frame.rows) |->
              [c \in frame.cols \cup {"ticker_adjusted"} |->
                  IF c = "ticker_adjusted" THEN AdjustTicker(frame.rows[i])
                  ELSE frame.rows[i][c]]])

----------------------------------------------------------------------------
(* The frame scrape_filings returns *)

PctOf(sym, opt) ==
    CASE sym = "A" /\ opt = "none" -> 5
      [] sym = "A" /\ opt = "put" -> 3
      [] sym = "A" /\ opt = "call" -> 1
      [] sym = "B" /\ opt = "none" -> 4
      [] sym = "B" /\ opt = "put" -> 2
      [] sym = "B" /\ opt = "call" -> 6

(* 'Date Filed' of the filing of a quarter: the 15th of the second month   *)
(* after the quarter, as the string the index table holds.                 *)
FiledDate(label) ==
    CASE label[1] = "Q1" -> <<"str", label[2], 5, 15>>
      [] label[1] = "Q2" -> <<"str", label[2], 8, 15>>
      [] label[1] = "Q3" -> <<"str", label[2], 11, 15>>
      [] label[1] = "Q4" -> <<"str", label[2] + 1, 2, 15>>

(* One row of a filing (lines 73-76); has_pct: the payload gives a         *)
(* percentage.                                                             *)
RawRow(sym, opt, label, has_pct) ==
    [Quarter |-> label,
     Date_Filed |-> FiledDate(label),
     Ticker |-> <<sym>>,
     CUSIP |-> <<"cusip", sym>>,
     Value_000 |-> 2 * PctOf(sym, opt),
     Percentage |-> IF has_pct THEN PctOf(sym, opt) ELSE NaN,
     Shares |-> 10 * PctOf(sym, opt),
     Option_Type |-> opt]

RawRows ==
    {RawRow(sym, opt, label, has_pct) :
        sym \in Symbols, opt \in OptionTypes, label \in QuarterLabels,
        has_pct \in BOOLEAN}

(* The place of a row in the scraped frame: filings latest first (line 62  *)
(* follows the index table), the rows of a filing in payload order.        *)
RowRank(r) ==
    LET o == CASE r.Option_Type = "none" -> 0
               [] r.Option_Type = "put" -> 1
               [] r.Option_Type = "call" -> 2
    IN (0 - get_quarter_end(r.Quarter)) * 100 + TokRank(r.Ticker[1]) * 10
       + o * 2 + (IF r.Percentage = NaN THEN 1 ELSE 0)

(* The rows are in that order. Line 110 sorts the frame before any row is  *)
(* read by position, so the order of the scraped rows decides nothing.     *)
InScrapeOrder(rows) ==
    \A i \in 1..(Len(rows) - 1) : RowRank(rows[i]) <= RowRank(rows[i + 1])

----------------------------------------------------------------------------
(* The pipeline of lines 259-295 *)

Init ==
    /\ pc = "scraped"
    /\ \E n \in 0..MaxRows : \E rows \in [1..n -> RawRows] :
          /\ InScrapeOrder(rows)
          /\ scraped = Frame(RawCols, rows)
    /\ df = NoFrame
    /\ df_window = NoFrame
    /\ df_topk = NoFrame
    /\ date_range = "none"
    /\ start_date = 0
    /\ end_date = 0
    /\ k = 0

(* Line 262: df = preprocess_filings_df(df) *)
Preprocess ==
    /\ pc = "scraped"
    /\ \E out \in PreprocessOutcomes(scraped) :
          /\ df' = out
          /\ pc' = IF out.status = "ok" THEN "preprocessed" ELSE "failed"
    /\ scraped' = PreprocessInPlace(scraped)
    /\ UNCHANGED <<df_window, df_topk, date_range, start_date, end_date, k>>

(* Lines 265-268: df_filtered = filter_date_range(df, date_range) *)
FilterDateRange ==
    /\ pc = "preprocessed"
    /\ \E range \in DateRanges :
       \E start_input, end_input \in QuarterEnds(df) :
          LET window == WindowOf(df, range, start_input, end_input)
          IN /\ range # "Custom" =>
                   (start_input = window[1] /\ end_input = window[2])
             /\ date_range' = range
             /\ start_date' = window[1]
             /\ end_date' = window[2]
             /\ df_window' = filter_date_range(df, window)
    /\ pc' = "windowed"
    /\ UNCHANGED <<scraped, df, df_topk, k>>

(* Lines 279-282: df_filtered = filter_top_k_holdings(df_filtered, k) *)
FilterTopK ==
    /\ pc = "windowed"
    /\ \E n \in KValues :
       \E out \in TopKOutcomes(df_window, n) :
          /\ k' = n
          /\ df_topk' = out
    /\ pc' = "selected"
    /\ UNCHANGED <<scraped, df, df_window, date_range, start_date, end_date>>

(* Line 295: make_graph(df_filtered, y_axis), on the window's frame when   *)
(* all holdings are shown and on the top-k frame otherwise.                *)
MakeGraph ==
    /\ pc \in {"windowed", "selected"}
    /\ IF pc = "windowed"
       THEN df_window' = MakeGraphInPlace(df_window) /\ UNCHANGED df_topk
       ELSE df_topk' = MakeGraphInPlace(df_topk) /\ UNCHANGED df_window
    /\ pc' = IF pc = "windowed" THEN "graphed_all" ELSE "graphed_topk"
    /\ UNCHANGED <<scraped, df, date_range, start_date, end_date, k>>

Next == Preprocess \/ FilterDateRange \/ FilterTopK \/ MakeGraph

Spec == Init /\ [][Next]_vars

(* preprocess_filings_df alone, on every scraped frame *)
NextNormalize == Preprocess

SpecNormalize == Init /\ [][NextNormalize]_vars

(* preprocess_filings_df, then filter_date_range *)
NextWindow == Preprocess \/ FilterDateRange

SpecWindow == Init /\ [][NextWindow]_vars

----------------------------------------------------------------------------
(* What the scraped frame holds, as the properties below read it *)

(* The series of a row: its symbol, suffixed when it is a put or a call *)
SeriesOf(row) == AdjustTicker(row)

(* The series preprocess_filings_df built a row of its result for: the     *)
(* ticker_adjusted of a row it kept, the 'Ticker' of a row it added.       *)
BuiltFor(row) ==
    IF row.ticker_adjusted = NaNStr THEN row.Ticker ELSE row.ticker_adjusted

Observed == SelectSeq(scraped.rows, LAMBDA r : r.Percentage # NaN)

InputSeries == {SeriesOf(Observed[i]) : i \in 1..Len(Observed)}

CanonicalQuarters ==
    {get_quarter_end(Observed[i].Quarter) : i \in 1..Len(Observed)}

ObservedQuarters(s) ==
    {get_quarter_end(Observed[i].Quarter) :
        i \in {j \in 1..Len(Observed) : SeriesOf(Observed[j]) = s}}

RowsAt(frame, s, q) ==
    {i \in 1..Len(frame.rows) :
        SeriesOf(frame.rows[i]) = s /\ frame.rows[i].quarter_end = q}

----------------------------------------------------------------------------
(* C1. Gap-fill completeness: for every series s of the rows of the input  *)
(* that have a percentage, and every canonical quarter q from the first to *)
(* the last quarter of s, the frame preprocess_filings_df returns has      *)
(* exactly one row whose series is s and whose quarter end is q; a row the *)
(* input did not have has 0 shares, value 0 and percentage 0.              *)
GapFillComplete ==
    pc = "preprocessed" =>
        \A s \in InputSeries : \A q \in CanonicalQuarters :
            (Min(ObservedQuarters(s)) <= q /\ q <= Max(ObservedQuarters(s))) =>
                /\ Cardinality(RowsAt(df, s, q)) = 1
                /\ q \notin ObservedQuarters(s) =>
                      \A i \in RowsAt(df, s, q) :
                          /\ df.rows[i].Shares = 0
                          /\ df.rows[i].Value = 0
                          /\ df.rows[i].Percentage = 0

(* C2. No extrapolation: the frame preprocess_filings_df returns has no    *)
(* row of a series s (by the symbol and option type of the row, or by the  *)
(* series the row was built for) at a quarter before the first or after    *)
(* the last quarter the input has s at.                                    *)
NoExtrapolation ==
    pc = "preprocessed" =>
        \A i \in 1..Len(df.rows) : \A s \in InputSeries :
            (SeriesOf(df.rows[i]) = s \/ BuiltFor(df.rows[i]) = s) =>
                /\ Min(ObservedQuarters(s)) <= df.rows[i].quarter_end
                /\ df.rows[i].quarter_end <= Max(ObservedQuarters(s))

(* A frame was normalized in which one series was last seen before a       *)
(* quarter, and another first seen after a quarter, that other series have *)
(* rows at.                                                                *)
NoExtrapolationWitness ==
    /\ pc = "preprocessed"
    /\ \E s \in InputSeries : \E q \in CanonicalQuarters :
          q > Max(ObservedQuarters(s))
    /\ \E s \in InputSeries : \E q \in CanonicalQuarters :
          q < Min(ObservedQuarters(s))
    /\ \A i \in 1..Len(df.rows) : BuiltFor(df.rows[i]) \in InputSeries

(* C3. Idempotence: preprocess_filings_df run on the frame it returned      *)
(* returns that same frame.                                                *)
NormalizeIdempotent ==
    pc = "preprocessed" => PreprocessOutcomes(df) = {df}

(* C6. EmptyInput: preprocess_filings_df called on a frame with no row, or *)
(* with no row that has a percentage, returns an empty frame and does not  *)
(* end in an error.                                                        *)
EmptyInputReturnsEmpty ==
    (pc \in {"preprocessed", "failed"} /\ Observed = <<>>) =>
        (df.status = "ok" /\ df.rows = <<>>)

(* C8, as claimed. The frame preprocess_filings_df returns is sorted by    *)
(* (series, quarter end): of two consecutive rows the first has the        *)
(* smaller series, or the same series and a quarter end that is not later. *)
SortedBySeriesQuarter ==
    pc = "preprocessed" =>
        \A i \in 1..(Len(df.rows) - 1) :
            \/ StrLT(SeriesOf(df.rows[i]), SeriesOf(df.rows[i + 1]))
            \/ /\ SeriesOf(df.rows[i]) = SeriesOf(df.rows[i + 1])
               /\ df.rows[i].quarter_end <= df.rows[i + 1].quarter_end

(* C8, as amended. The frame preprocess_filings_df returns is sorted by    *)
(* ('Ticker', quarter end), 'Ticker' being the value of that column: of    *)
(* two consecutive rows the first has the smaller 'Ticker', or the same    *)
(* 'Ticker' and a quarter end that is not later.                           *)
SortedByTickerColumn ==
    pc = "preprocessed" =>
        \A i \in 1..(Len(df.rows) - 1) :
            \/ StrLT(df.rows[i].Ticker, df.rows[i + 1].Ticker)
            \/ /\ df.rows[i].Ticker = df.rows[i + 1].Ticker
               /\ df.rows[i].quarter_end <= df.rows[i + 1].quarter_end

(* A frame was normalized in which a row of an option series stands        *)
(* between two rows of the equity series on the same symbol.               *)
SortedByTickerColumnWitness ==
    /\ pc = "preprocessed"
    /\ \E i \in 1..(Len(df.rows) - 2) :
          /\ df.rows[i].Option_Type = "none"
          /\ df.rows[i + 1].Option_Type # "none"
          /\ df.rows[i + 2].Option_Type = "none"
          /\ df.rows[i].Ticker = df.rows[i + 1].Ticker
          /\ df.rows[i + 1].Ticker = df.rows[i + 2].Ticker
          /\ df.rows[i].quarter_end < df.rows[i + 2].quarter_end

(* C7, as claimed. filter_date_range called with a Custom window whose     *)
(* start is later than its end ends in an error and returns no frame.      *)
InvalidWindowFails ==
    (pc = "windowed" /\ date_range = "Custom" /\ start_date > end_date) =>
        df_window.status # "ok"

(* C7, as amended. filter_date_range called with a Custom window whose     *)
(* start is later than its end raises nothing and returns the frame with   *)
(* the columns of its input and no row.                                    *)
InvalidWindowReturnsEmpty ==
    (pc = "windowed" /\ date_range = "Custom" /\ start_date > end_date) =>
        /\ df_window.status = "ok"
        /\ df_window.cols = df.cols
        /\ df_window.rows = <<>>

(* filter_date_range was called on a frame with rows, with a Custom window *)
(* whose start is later than its end.                                      *)
InvalidWindowWitness ==
    /\ pc = "windowed"
    /\ date_range = "Custom"
    /\ start_date > end_date
    /\ df.rows # <<>>

----------------------------------------------------------------------------
(* What the properties of the filters read *)

RowsAtQuarter(frame, q) ==
    {i \in 1..Len(frame.rows) : frame.rows[i].quarter_end = q}

(* The rows of the frame at its latest quarter end *)
EndRows(frame) ==
    IF frame.rows = <<>> THEN {}
    ELSE RowsAtQuarter(frame, Max(QuarterEnds(frame)))

SymbolsOf(frame, rows) == {frame.rows[i].Ticker : i \in rows}

DistinctPercentages(frame, rows) ==
    \A i, j \in rows :
        frame.rows[i].Percentage = frame.rows[j].Percentage => i = j

(* Every series with a row in the frame has a row at every quarter of the  *)
(* frame from its first to its last quarter there.                         *)
Contiguous(frame) ==
    \A i, j \in 1..Len(frame.rows) : \A q \in QuarterEnds(frame) :
        (/\ BuiltFor(frame.rows[i]) = BuiltFor(frame.rows[j])
         /\ frame.rows[i].quarter_end < q
         /\ q < frame.rows[j].quarter_end) =>
            \E m \in 1..Len(frame.rows) :
                /\ BuiltFor(frame.rows[m]) = BuiltFor(frame.rows[i])
                /\ frame.rows[m].quarter_end = q

(* Each series of frame has all of its rows in part, or none *)
WholeSeries(frame, part) ==
    \A i, j \in 1..Len(frame.rows) :
        (/\ BuiltFor(frame.rows[i]) = BuiltFor(frame.rows[j])
         /\ frame.rows[i] \in Range(part.rows)) =>
            frame.rows[j] \in Range(part.rows)

(* C4. Top-K cardinality: for k >= 1 and a frame whose rows at the latest  *)
(* quarter end have distinct percentages, filter_top_k_holdings returns    *)
(* rows of exactly min(k, number of distinct symbols at the latest quarter *)
(* end) distinct symbols.                                                  *)
TopKCardinality ==
    (/\ pc = "selected"
     /\ k >= 1
     /\ DistinctPercentages(df_window, EndRows(df_window))) =>
        LET n == Cardinality(SymbolsOf(df_window, EndRows(df_window)))
        IN Cardinality(SymbolsOf(df_topk, 1..Len(df_topk.rows)))
               = (IF k < n THEN k ELSE n)

(* C5. For every k <= 0, filter_top_k_holdings returns an empty frame and  *)
(* raises no error: a negative k is as k = 0.                              *)
NonPositiveKSelectsNothing ==
    (pc = "selected" /\ k <= 0) =>
        (df_topk.status = "ok" /\ df_topk.rows = <<>>)

(* C9. No stage mutates its input: the frame a stage was passed, once      *)
(* made, is the same after every step of the pipeline.                     *)
StagesLeaveInputs ==
    [][/\ scraped' = scraped
       /\ df.status # "none" => df' = df
       /\ df_window.status # "none" => df_window' = df_window
       /\ df_topk.status # "none" => df_topk' = df_topk]_vars

(* C10. Contiguity survives the filters: after filter_date_range with a    *)
(* preset and after filter_top_k_holdings with k >= 1, every series with a *)
(* row in the result has a row at every quarter of the result from its     *)
(* first to its last quarter there, and filter_top_k_holdings keeps all    *)
(* the rows of a series or none of them.                                   *)
FiltersKeepContiguity ==
    /\ (pc = "windowed" /\ date_range # "Custom") => Contiguous(df_window)
    /\ (pc = "selected" /\ date_range # "Custom" /\ k >= 1) =>
          (Contiguous(df_topk) /\ WholeSeries(df_window, df_topk))

====
